---- MODULE Spec2Model ----
(***************************************************************************)
(* The Voice Session Controller of the voice page (the controller with     *)
(* text interleaving and the debounce timer): its runtime variables, its   *)
(* DOM projection, the asynchronous positions of handleMicClick /          *)
(* startCall, the transport sessions it opens and the browser timer queue. *)
(*                                                                         *)
(* One action is one run-to-completion segment of JavaScript: an event     *)
(* handler, or the continuation of an async function after an await.       *)
(*                                                                         *)
(* The transport (the Vapi object) is outside the repository.  It is       *)
(* modelled as an environment per session: opening -> live -> ended, or    *)
(* opening -> failed.  'call-start' moves opening to live, 'call-end'      *)
(* moves live to ended, vapi.start() can throw while the session is        *)
(* opening, and 'error' can be emitted any time before the session has     *)
(* ended or failed (the SDK forwards                                       *)
(* non-fatal device errors as 'error' and keeps the call).  Handlers       *)
(* registered on a session object stay registered for the life of the      *)
(* page.  An event a handler ignores changes nothing and is a stuttering   *)
(* step; so is the normal return of `await vapi.start()`.                  *)
(***************************************************************************)
EXTENDS Naturals, Integers, Sequences, FiniteSets, TLC

VARIABLES
  vapi,                \* let vapi: 0 is null, otherwise the session object
  isCallActive,        \* let isCallActive
  pendingText,         \* let pendingText: <<>> is null, <<t>> holds text t
  agentSpeakingTimer,  \* let agentSpeakingTimer: 0 is null, otherwise the timer it names
  uiState,             \* argument of the latest applyState call
  dom,                 \* what applyState wrote to the page
  inflight,            \* handleMicClick calls suspended at the permission query / the access request
  sess,                \* sess[s]: start attempt s and the transport session it opens
  tasks,               \* browser timer queue, in arming order
  localStorage,        \* localStorage['calendarUserId']: <<>> is absent, <<id>> holds id
  reported,            \* sessions whose call-end / error / open failure was handled
  pendingBy,           \* the attempt whose submission filled pendingText (0: none)
  sent,                \* deliveries made by the settle-delay flush, in order: the text, the
                       \* attempt that queued it (by), the session whose call-start armed the
                       \* flush (sess), the session it went into, and whether that session
                       \* had entered listening / had already been reported ended or failed
  lastCall,            \* the call the latest step made on a transport session
  lastPerm,            \* what getMicPermissionState returned in the latest step ("": nothing)
  applyLog             \* applyState calls so far, while the run follows the mic/prompt scenario

vars == <<vapi, isCallActive, pendingText, agentSpeakingTimer, uiState, dom, inflight,
          sess, tasks, localStorage, reported, pendingBy, sent, lastCall, lastPerm,
          applyLog>>

-----------------------------------------------------------------------------
(* Bounds *)

MaxAttempts == 3    \* start attempts that reach startCall
MaxAlive == 2       \* of them, attempts not yet closed at once
MaxInFlight == 1    \* handleMicClick calls suspended before startCall
MaxTimers == 2      \* debounce timers queued at once

Attempts == 1..MaxAttempts

-----------------------------------------------------------------------------
(* Program constants *)

SettleDelay == 600
DebounceDelay == 800

States == {"idle", "requesting-mic", "mic-denied", "connecting", "listening",
           "user-speaking", "agent-speaking", "call-ended", "call-error"}

ActiveStates == {"listening", "user-speaking", "agent-speaking"}

\* What the user can type: strings as sequences of characters.
RawInputs == { <<>>, <<" ">>, <<"a">>, <<" ", "a", " ">> }

RECURSIVE TrimLeft(_)
TrimLeft(s) == IF s # <<>> /\ Head(s) = " " THEN TrimLeft(Tail(s)) ELSE s

RECURSIVE TrimRight(_)
TrimRight(s) ==
  IF s # <<>> /\ s[Len(s)] = " " THEN TrimRight(SubSeq(s, 1, Len(s) - 1)) ELSE s

Trim(s) == TrimRight(TrimLeft(s))

\* JavaScript truthiness of pendingText (null and '' are falsy).
Truthy(p) == p # <<>> /\ p[1] # <<>>

-----------------------------------------------------------------------------
(* applyState *)

\* A setTextSection that leaves the input's disabled flag alone when it hides
\* the section.
SetTextSectionLazy(d, visible, enabled) ==
  [d EXCEPT !.textVisible = visible, !.textEnabled = IF visible THEN enabled ELSE @]

\* setTextSection(visible, enabled = true)
SetTextSection(d, visible, enabled) ==
  [d EXCEPT !.textVisible = visible, !.textEnabled = enabled]

\* setIcons({mic, stop, spin}) shows exactly the icons named.
SetIcons(d, shown) == [d EXCEPT !.icons = shown]

\* A reset that leaves micWrapper.className as it was.
ResetKeepsWrapper(d) ==
  [d EXCEPT !.micDisabled = FALSE, !.permCard = FALSE, !.waveform = {}]

\* "Reset shared classes": the first four statements of applyState.
Reset(d) ==
  [d EXCEPT !.wrapper = {"mic-wrapper"}, !.micDisabled = FALSE,
            !.permCard = FALSE, !.waveform = {}]

\* The page after applyState(state) ran on page d: the shared reset, then the
\* case of the switch.  A state outside the switch gets the reset only.
ApplyState(d, state) ==
  LET r == Reset(d)
  IN CASE state = "idle" ->
            SetTextSection([SetIcons(r, {"mic"}) EXCEPT !.status = "Tap to speak"], FALSE, TRUE)
       [] state = "requesting-mic" ->
            SetTextSection([SetIcons(r, {"spin"}) EXCEPT
                              !.status = "Checking microphone", !.micDisabled = TRUE],
                           FALSE, TRUE)
       [] state = "mic-denied" ->
            SetTextSection([SetIcons(r, {"mic"}) EXCEPT
                              !.status = "Microphone blocked", !.permCard = TRUE],
                           TRUE, TRUE)
       [] state = "connecting" ->
            SetTextSection([SetIcons(r, {"spin"}) EXCEPT
                              !.status = "Connecting", !.micDisabled = TRUE],
                           FALSE, TRUE)
       [] state = "listening" ->
            SetTextSection([SetIcons(r, {"stop"}) EXCEPT
                              !.status = "Listening",
                              !.wrapper = {"mic-wrapper", "active"}],
                           TRUE, TRUE)
       [] state = "user-speaking" ->
            SetTextSection([SetIcons(r, {"stop"}) EXCEPT
                              !.status = "Listening...",
                              !.wrapper = {"mic-wrapper", "active", "user-speaking"},
                              !.waveform = {"active"}],
                           TRUE, TRUE)
       [] state = "agent-speaking" ->
            SetTextSection([SetIcons(r, {"stop"}) EXCEPT
                              !.status = "Agent speaking",
                              !.wrapper = {"mic-wrapper", "active", "agent-talking"},
                              !.waveform = {"active", "agent-mode"}],
                           TRUE, FALSE)
       [] state = "call-ended" ->
            SetTextSection([SetIcons(r, {"mic"}) EXCEPT !.status = "Call ended"], FALSE, TRUE)
       [] state = "call-error" ->
            SetTextSection([SetIcons(r, {"mic"}) EXCEPT !.status = "Connection error"],
                           FALSE, TRUE)
       [] OTHER -> r

\* isCallActive after applyState(state): the call-ended and call-error cases clear it.
ActiveAfter(state, active) ==
  IF state \in {"call-ended", "call-error"} THEN FALSE ELSE active

\* The page before the script ran (everything the script sets is overwritten by
\* applyState('idle')).
BlankDom ==
  [wrapper |-> {}, micDisabled |-> FALSE, permCard |-> FALSE, waveform |-> {},
   icons |-> {}, status |-> "", textVisible |-> FALSE, textEnabled |-> TRUE]

\* What the browser lets the user do on the page.
MicBtnClickable == ~dom.micDisabled
RetryBtnClickable == dom.permCard
TextUsable == dom.textVisible /\ dom.textEnabled

-----------------------------------------------------------------------------
(* Identity, permission gate *)

Uuids == {"u1", "u2"}

\* A getOrCreateUserId that generates and stores a new id on every call.
GetOrCreateUserIdRotates(store, fresh) == <<fresh>>

\* getOrCreateUserId: the stored id, or a fresh one written to storage.
GetOrCreateUserId(store, fresh) == IF store = <<>> THEN <<fresh>> ELSE store

\* What navigator.permissions.query can do.
QueryOutcomes == {"granted", "denied", "prompt", "throws"}

\* A permission gate that reports a failed query as 'denied'.
GetMicPermissionStateFailsClosed(outcome) ==
  IF outcome = "throws" THEN "denied" ELSE outcome

\* A permission gate that reports an explicit denial as 'prompt'.
GetMicPermissionStateAsksAgain(outcome) ==
  IF outcome \in {"throws", "denied"} THEN "prompt" ELSE outcome

\* getMicPermissionState: the state queried, 'prompt' when the query throws.
GetMicPermissionState(outcome) == IF outcome = "throws" THEN "prompt" ELSE outcome

-----------------------------------------------------------------------------
(* Timers *)

\* Delay of a queued task.
Delay(t) == IF t.kind = "flush" THEN SettleDelay ELSE DebounceDelay

\* Timer ids are opaque.  The model names a queued timer by its position in
\* the queue; a handle naming a timer that is no longer queued is Stale.
Stale == -1

\* setTimeout queues the task last and returns its name.
SetTimeout(q, task) == Append(q, task)
NewTimerId(q) == Len(q) + 1

\* clearTimeout(id): the task with that name, if still queued, never runs.
ClearTimeout(q, id) ==
  IF id \in 1..Len(q) THEN SubSeq(q, 1, id - 1) \o SubSeq(q, id + 1, Len(q)) ELSE q

\* The name handle h has once task i left the queue.
Renamed(h, i) == IF h = i THEN Stale ELSE IF h > i THEN h - 1 ELSE h

Remove(q, i) == SubSeq(q, 1, i - 1) \o SubSeq(q, i + 1, Len(q))

\* Task i is due before every task armed earlier only if its delay is shorter.
CanFire(i) == \A j \in 1..(i - 1) : Delay(tasks[j]) > Delay(tasks[i])

DebounceCount == Cardinality({i \in 1..Len(tasks) : tasks[i].kind = "debounce"})

-----------------------------------------------------------------------------
(* Calls on the transport, and the scenario log *)

NoCall == [op |-> "none", to |-> 0, text |-> <<>>, userId |-> "", token |-> ""]

\* vapi.start(ASSISTANT_ID, {variableValues: {userId, sessionToken?}}) on session s
StartOf(s, userId, token) ==
  [op |-> "start", to |-> s, text |-> <<>>, userId |-> userId, token |-> token]

\* vapi.stop() on session s
StopOf(s) == [op |-> "stop", to |-> s, text |-> <<>>, userId |-> "", token |-> ""]

\* vapi.send({type: 'add-message', message: {role: 'user', content: text}}) on session s
SendOf(s, text) == [op |-> "send", to |-> s, text |-> text, userId |-> "", token |-> ""]

\* The events of the scenario: tap start, permission 'prompt', access granted,
\* pre-registration answered, transport 'call started'.
Scenario == << <<"click", "mic-btn">>, <<"perm", "prompt">>, <<"mic", "granted">>,
               <<"prereg">>, <<"call-start">> >>

LogOff == [on |-> FALSE, n |-> 0, states |-> <<>>]

\* applyLog after a step that handled the event `key` and called applyState
\* with the states `applied`, in order.
Log(key, applied) ==
  IF applyLog.on /\ applyLog.n < Len(Scenario) /\ key = Scenario[applyLog.n + 1]
  THEN [on |-> TRUE, n |-> applyLog.n + 1, states |-> applyLog.states \o applied]
  ELSE LogOff

-----------------------------------------------------------------------------
(* Initial state: the page after the script ran (applyState('idle'), and     *)
(* guardAuth's getOrCreateUserId).                                           *)

Init ==
  /\ vapi = 0
  /\ isCallActive = FALSE
  /\ pendingText = <<>>
  /\ agentSpeakingTimer = 0
  /\ uiState = "idle"
  /\ dom = ApplyState(BlankDom, "idle")
  /\ inflight = [query |-> 0, request |-> 0]
  /\ sess = [a \in Attempts |-> "unused"]
  /\ tasks = <<>>
  /\ localStorage = GetOrCreateUserId(<<>>, "u1")
  /\ reported = {}
  /\ pendingBy = 0
  /\ sent = <<>>
  /\ lastCall = NoCall
  /\ lastPerm = ""
  /\ applyLog = [on |-> TRUE, n |-> 0, states |-> <<"idle">>]

\* Attempts in progress, and sessions the transport has not closed.
Alive == {a \in Attempts : sess[a] \in {"prereg", "opening", "live"}}

HasFree == (\E a \in Attempts : sess[a] = "unused") /\ Cardinality(Alive) < MaxAlive

\* The next start attempt (attempts are numbered in the order they reach startCall).
NextAttempt ==
  CHOOSE a \in Attempts : sess[a] = "unused" /\ \A b \in 1..(a - 1) : sess[b] # "unused"

\* applyState(state) as a step: the page, the state shown, and isCallActive
\* (active: its value when applyState is called).
Apply(state, active) ==
  /\ uiState' = state
  /\ dom' = ApplyState(dom, state)
  /\ isCallActive' = ActiveAfter(state, active)

-----------------------------------------------------------------------------
(* startCall *)

\* A startCall that does not show 'connecting'.
StartCallBeginSilent(a, key) ==
  /\ UNCHANGED <<uiState, dom, isCallActive>>
  /\ applyLog' = Log(key, <<>>)
  /\ \E fresh \in Uuids : localStorage' = GetOrCreateUserId(localStorage, fresh)
  /\ sess' = [sess EXCEPT ![a] = "prereg"]

\* startCall up to its first await: applyState('connecting'), getOrCreateUserId(),
\* then the pre-registration request is in flight (key: the event that led here).
StartCallBegin(a, key) ==
  /\ Apply("connecting", isCallActive)
  /\ applyLog' = Log(key, <<"connecting">>)
  /\ \E fresh \in Uuids : localStorage' = GetOrCreateUserId(localStorage, fresh)
  /\ sess' = [sess EXCEPT ![a] = "prereg"]

\* A startCall that gives up with call-error when the pre-registration fails.
OpenSessionNeedsToken(a, tokenOk) ==
  /\ sess[a] = "prereg"
  /\ IF tokenOk
     THEN /\ vapi' = a
          /\ sess' = [sess EXCEPT ![a] = "opening"]
          /\ lastCall' = StartOf(a, localStorage[1], "token")
          /\ UNCHANGED <<isCallActive, uiState, dom, reported>>
     ELSE /\ vapi' = 0
          /\ sess' = [sess EXCEPT ![a] = "failed"]
          /\ lastCall' = NoCall
          /\ Apply("call-error", FALSE)
          /\ reported' = reported \cup {a}
  /\ lastPerm' = ""
  /\ applyLog' = Log(<<"prereg">>, <<>>)
  /\ UNCHANGED <<pendingText, agentSpeakingTimer, inflight, tasks, localStorage, pendingBy,
                 sent>>

\* The pre-registration request settled (tokenOk: a token came back; otherwise
\* the failure was logged and sessionToken stays null).  Then: new Vapi, the
\* handlers are registered, and vapi.start(...) is called and awaited.
OpenSession(a, tokenOk) ==
  /\ sess[a] = "prereg"
  /\ vapi' = a
  /\ sess' = [sess EXCEPT ![a] = "opening"]
  /\ lastCall' = StartOf(a, localStorage[1], IF tokenOk THEN "token" ELSE "")
  /\ lastPerm' = ""
  /\ applyLog' = Log(<<"prereg">>, <<>>)
  /\ UNCHANGED <<isCallActive, pendingText, agentSpeakingTimer, uiState, dom, inflight,
                 tasks, localStorage, reported, pendingBy, sent>>

\* `await vapi.start(...)` threw: the catch block.
StartFailed(a) ==
  /\ sess[a] = "opening"
  /\ sess' = [sess EXCEPT ![a] = "failed"]
  /\ vapi' = 0
  /\ Apply("call-error", FALSE)
  /\ reported' = reported \cup {a}
  /\ applyLog' = Log(<<"start-failed">>, <<"call-error">>)
  /\ lastCall' = NoCall
  /\ lastPerm' = ""
  /\ UNCHANGED <<pendingText, agentSpeakingTimer, inflight, tasks, localStorage, pendingBy,
                 sent>>

-----------------------------------------------------------------------------
(* Transport event handlers registered by startCall on session s *)

\* vapi.on('call-start')
OnCallStart(s) ==
  /\ sess[s] = "opening"
  /\ sess' = [sess EXCEPT ![s] = "live"]
  /\ Apply("listening", TRUE)
  /\ IF Truthy(pendingText)
     THEN /\ pendingText' = <<>>
          /\ pendingBy' = 0
          /\ tasks' = SetTimeout(tasks, [kind |-> "flush", text |-> pendingText[1],
                                         by |-> pendingBy, sess |-> s])
     ELSE UNCHANGED <<pendingText, pendingBy, tasks>>
  /\ applyLog' = Log(<<"call-start">>, <<"listening">>)
  /\ lastCall' = NoCall
  /\ lastPerm' = ""
  /\ UNCHANGED <<vapi, agentSpeakingTimer, inflight, localStorage, reported, sent>>

\* vapi.on('call-end')
OnCallEnd(s) ==
  /\ sess[s] = "live"
  /\ sess' = [sess EXCEPT ![s] = "ended"]
  /\ vapi' = 0
  /\ IF agentSpeakingTimer # 0
     THEN /\ tasks' = ClearTimeout(tasks, agentSpeakingTimer)
          /\ agentSpeakingTimer' = 0
     ELSE UNCHANGED <<tasks, agentSpeakingTimer>>
  /\ Apply("call-ended", FALSE)
  /\ reported' = reported \cup {s}
  /\ applyLog' = Log(<<"call-end">>, <<"call-ended">>)
  /\ lastCall' = NoCall
  /\ lastPerm' = ""
  /\ UNCHANGED <<pendingText, inflight, localStorage, pendingBy, sent>>

\* vapi.on('speech-start')
OnSpeechStart(s) ==
  /\ sess[s] = "live"
  /\ IF isCallActive THEN Apply("user-speaking", isCallActive)
                     ELSE UNCHANGED <<uiState, dom, isCallActive>>
  /\ applyLog' = Log(<<"speech-start">>, <<>>)
  /\ lastCall' = NoCall
  /\ lastPerm' = ""
  /\ UNCHANGED <<vapi, pendingText, agentSpeakingTimer, inflight, sess, tasks,
                 localStorage, reported, pendingBy, sent>>

\* vapi.on('speech-end')
OnSpeechEnd(s) ==
  /\ sess[s] = "live"
  /\ IF isCallActive THEN Apply("listening", isCallActive)
                     ELSE UNCHANGED <<uiState, dom, isCallActive>>
  /\ applyLog' = Log(<<"speech-end">>, <<>>)
  /\ lastCall' = NoCall
  /\ lastPerm' = ""
  /\ UNCHANGED <<vapi, pendingText, agentSpeakingTimer, inflight, sess, tasks,
                 localStorage, reported, pendingBy, sent>>

\* Messages the transport delivers: assistant speech updates, a speech update
\* of the user's role, and a message of another type.
Messages ==
  { [type |-> "speech-update", role |-> "assistant", status |-> "started"],
    [type |-> "speech-update", role |-> "assistant", status |-> "stopped"],
    [type |-> "speech-update", role |-> "user", status |-> "started"],
    [type |-> "transcript", role |-> "assistant", status |-> "stopped"] }

\* A message handler that does not look at isCallActive.
FoldedAnyTime(msg) == msg.type = "speech-update" /\ msg.role = "assistant"

\* The message handler's condition.
Folded(msg) == msg.type = "speech-update" /\ isCallActive /\ msg.role = "assistant"

\* vapi.on('message')
OnMessage(s, msg) ==
  /\ sess[s] = "live"
  /\ IF Folded(msg)
     THEN IF msg.status = "started"
          THEN /\ IF agentSpeakingTimer # 0
                  THEN /\ tasks' = ClearTimeout(tasks, agentSpeakingTimer)
                       /\ agentSpeakingTimer' = 0
                  ELSE UNCHANGED <<tasks, agentSpeakingTimer>>
               /\ Apply("agent-speaking", isCallActive)
          ELSE /\ DebounceCount < MaxTimers
               /\ agentSpeakingTimer' = NewTimerId(tasks)
               /\ tasks' = SetTimeout(tasks, [kind |-> "debounce", text |-> <<>>,
                                              by |-> 0, sess |-> s])
               /\ UNCHANGED <<uiState, dom, isCallActive>>
     ELSE UNCHANGED <<tasks, agentSpeakingTimer, uiState, dom, isCallActive>>
  /\ applyLog' = Log(<<"message">>, <<>>)
  /\ lastCall' = NoCall
  /\ lastPerm' = ""
  /\ UNCHANGED <<vapi, pendingText, inflight, sess, localStorage, reported, pendingBy,
                 sent>>

\* vapi.on('error')
OnError(s) ==
  /\ sess[s] \in {"opening", "live"}
  /\ vapi' = 0
  /\ Apply("call-error", FALSE)
  /\ reported' = reported \cup {s}
  /\ applyLog' = Log(<<"error">>, <<"call-error">>)
  /\ lastCall' = NoCall
  /\ lastPerm' = ""
  /\ UNCHANGED <<pendingText, agentSpeakingTimer, inflight, sess, tasks, localStorage,
                 pendingBy, sent>>

-----------------------------------------------------------------------------
(* Timer callbacks *)

\* A debounce callback that does not reset agentSpeakingTimer.
TimerFiredKeepsHandle(i) ==
  /\ i \in 1..Len(tasks)
  /\ tasks[i].kind = "debounce"
  /\ CanFire(i)
  /\ tasks' = Remove(tasks, i)
  /\ agentSpeakingTimer' = Renamed(agentSpeakingTimer, i)
  /\ IF isCallActive THEN Apply("listening", isCallActive)
                     ELSE UNCHANGED <<uiState, dom, isCallActive>>
  /\ applyLog' = Log(<<"timer">>, <<>>)
  /\ lastCall' = NoCall
  /\ lastPerm' = ""
  /\ UNCHANGED <<vapi, pendingText, inflight, sess, localStorage, reported, pendingBy,
                 sent>>

\* The debounce callback armed by the message handler.
TimerFired(i) ==
  /\ i \in 1..Len(tasks)
  /\ tasks[i].kind = "debounce"
  /\ CanFire(i)
  /\ tasks' = Remove(tasks, i)
  /\ agentSpeakingTimer' = 0
  /\ IF isCallActive THEN Apply("listening", isCallActive)
                     ELSE UNCHANGED <<uiState, dom, isCallActive>>
  /\ applyLog' = Log(<<"timer">>, <<>>)
  /\ lastCall' = NoCall
  /\ lastPerm' = ""
  /\ UNCHANGED <<vapi, pendingText, inflight, sess, localStorage, reported, pendingBy,
                 sent>>

\* sendTextToVapi(text): the call it makes, none when there is no session or no
\* active call.
SendTextToVapi(text) ==
  IF vapi = 0 \/ ~isCallActive THEN NoCall ELSE SendOf(vapi, text)

\* The settle-delay callback armed by the call-start handler.
FlushFired(i) ==
  /\ i \in 1..Len(tasks)
  /\ tasks[i].kind = "flush"
  /\ CanFire(i)
  /\ tasks' = Remove(tasks, i)
  /\ LET call == SendTextToVapi(tasks[i].text)
     IN /\ lastCall' = call
        /\ lastPerm' = ""
        /\ sent' = IF call.op = "send"
                   THEN Append(sent, [text |-> tasks[i].text, by |-> tasks[i].by,
                                      sess |-> tasks[i].sess, into |-> call.to,
                                      entered |-> sess[call.to] = "live",
                                      stale |-> call.to \in reported])
                   ELSE sent
  /\ applyLog' = Log(<<"flush">>, <<>>)
  /\ agentSpeakingTimer' = Renamed(agentSpeakingTimer, i)
  /\ UNCHANGED <<vapi, isCallActive, pendingText, uiState, dom, inflight, sess,
                 localStorage, reported, pendingBy>>

-----------------------------------------------------------------------------
(* handleMicClick *)

\* stopCall(): the call it makes on the transport, none without a session.
StopCall == IF vapi # 0 THEN StopOf(vapi) ELSE NoCall

\* handleMicClick up to its first await (btn: the button clicked).
HandleMicClick(btn) ==
  IF isCallActive
  THEN /\ lastCall' = StopCall
       /\ lastPerm' = ""
       /\ applyLog' = Log(<<"click", btn>>, <<>>)
       /\ UNCHANGED <<vapi, isCallActive, pendingText, agentSpeakingTimer, uiState, dom,
                      inflight, sess, tasks, localStorage, reported, pendingBy, sent>>
  ELSE /\ inflight.query + inflight.request < MaxInFlight
       /\ Apply("requesting-mic", isCallActive)
       /\ inflight' = [inflight EXCEPT !.query = @ + 1]
       /\ applyLog' = Log(<<"click", btn>>, <<"requesting-mic">>)
       /\ lastCall' = NoCall
       /\ lastPerm' = ""
       /\ UNCHANGED <<vapi, pendingText, agentSpeakingTimer, sess, tasks, localStorage,
                      reported, pendingBy, sent>>

\* micBtn.addEventListener('click', handleMicClick)
MicBtnClick == MicBtnClickable /\ HandleMicClick("mic-btn")

\* retryBtn.addEventListener('click', handleMicClick)
RetryBtnClick == RetryBtnClickable /\ HandleMicClick("retry-btn")

\* handleMicClick after `await getMicPermissionState()`.
PermissionAnswered(outcome) ==
  /\ inflight.query > 0
  /\ LET permState == GetMicPermissionState(outcome)
     IN CASE permState = "denied" ->
               /\ Apply("mic-denied", isCallActive)
               /\ inflight' = [inflight EXCEPT !.query = @ - 1]
               /\ applyLog' = Log(<<"perm", permState>>, <<"mic-denied">>)
               /\ UNCHANGED <<sess, localStorage>>
          [] permState = "prompt" ->
               /\ inflight' = [inflight EXCEPT !.query = @ - 1, !.request = @ + 1]
               /\ applyLog' = Log(<<"perm", permState>>, <<>>)
               /\ UNCHANGED <<uiState, dom, isCallActive, sess, localStorage>>
          [] OTHER ->
               /\ HasFree
               /\ inflight' = [inflight EXCEPT !.query = @ - 1]
               /\ StartCallBegin(NextAttempt, <<"perm", permState>>)
  /\ lastCall' = NoCall
  /\ lastPerm' = GetMicPermissionState(outcome)
  /\ UNCHANGED <<vapi, pendingText, agentSpeakingTimer, tasks, reported, pendingBy, sent>>

\* A handleMicClick that shows a refused access request as a connection error.
MicAnsweredRefusalIsError(granted) ==
  /\ inflight.request > 0
  /\ inflight' = [inflight EXCEPT !.request = @ - 1]
  /\ IF ~granted
     THEN /\ Apply("call-error", FALSE)
          /\ applyLog' = Log(<<"mic", "refused">>, <<"call-error">>)
          /\ UNCHANGED <<sess, localStorage>>
     ELSE /\ HasFree
          /\ StartCallBegin(NextAttempt, <<"mic", "granted">>)
  /\ lastCall' = NoCall
  /\ lastPerm' = ""
  /\ UNCHANGED <<vapi, pendingText, agentSpeakingTimer, tasks, reported, pendingBy, sent>>

\* handleMicClick after `await requestMic()` (granted: getUserMedia succeeded
\* and its tracks were stopped).
MicAnswered(granted) ==
  /\ inflight.request > 0
  /\ inflight' = [inflight EXCEPT !.request = @ - 1]
  /\ IF ~granted
     THEN /\ Apply("mic-denied", isCallActive)
          /\ applyLog' = Log(<<"mic", "refused">>, <<"mic-denied">>)
          /\ UNCHANGED <<sess, localStorage>>
     ELSE /\ HasFree
          /\ StartCallBegin(NextAttempt, <<"mic", "granted">>)
  /\ lastCall' = NoCall
  /\ lastPerm' = ""
  /\ UNCHANGED <<vapi, pendingText, agentSpeakingTimer, tasks, reported, pendingBy, sent>>

-----------------------------------------------------------------------------
(* handleTextSend *)

\* A handleTextSend that starts the call the way a mic click does, through
\* the permission gate.
HandleTextSendGated(raw) ==
  LET text == Trim(raw)
  IN IF text = <<>>
     THEN /\ applyLog' = Log(<<"text">>, <<>>)
          /\ lastCall' = NoCall
          /\ lastPerm' = ""
          /\ UNCHANGED <<vapi, isCallActive, pendingText, agentSpeakingTimer, uiState, dom,
                         inflight, sess, tasks, localStorage, reported, pendingBy, sent>>
     ELSE IF isCallActive
     THEN /\ applyLog' = Log(<<"text">>, <<>>)
          /\ lastCall' = SendTextToVapi(text)
          /\ lastPerm' = ""
          /\ UNCHANGED <<vapi, isCallActive, pendingText, agentSpeakingTimer, uiState, dom,
                         inflight, sess, tasks, localStorage, reported, pendingBy, sent>>
     ELSE /\ HasFree
          /\ inflight.query + inflight.request < MaxInFlight
          /\ pendingText' = <<text>>
          /\ pendingBy' = NextAttempt
          /\ Apply("requesting-mic", isCallActive)
          /\ inflight' = [inflight EXCEPT !.query = @ + 1]
          /\ applyLog' = Log(<<"text">>, <<"requesting-mic">>)
          /\ lastCall' = NoCall
          /\ lastPerm' = ""
          /\ UNCHANGED <<vapi, agentSpeakingTimer, sess, tasks, localStorage, reported, sent>>

\* handleTextSend with `raw` typed in the input (Enter, or the send button).
HandleTextSend(raw) ==
  LET text == Trim(raw)
  IN IF text = <<>>
     THEN /\ applyLog' = Log(<<"text">>, <<>>)
          /\ lastCall' = NoCall
          /\ lastPerm' = ""
          /\ UNCHANGED <<vapi, isCallActive, pendingText, agentSpeakingTimer, uiState, dom,
                         inflight, sess, tasks, localStorage, reported, pendingBy, sent>>
     ELSE IF isCallActive
     THEN /\ applyLog' = Log(<<"text">>, <<>>)
          /\ lastCall' = SendTextToVapi(text)
          /\ lastPerm' = ""
          /\ UNCHANGED <<vapi, isCallActive, pendingText, agentSpeakingTimer, uiState, dom,
                         inflight, sess, tasks, localStorage, reported, pendingBy, sent>>
     ELSE /\ HasFree
          /\ pendingText' = <<text>>
          /\ pendingBy' = NextAttempt
          /\ StartCallBegin(NextAttempt, <<"text">>)
          /\ lastCall' = NoCall
          /\ lastPerm' = ""
          /\ UNCHANGED <<vapi, agentSpeakingTimer, inflight, tasks, reported, sent>>

\* textInput keydown Enter / sendBtn click
TextSend == TextUsable /\ \E raw \in RawInputs : HandleTextSend(raw)

-----------------------------------------------------------------------------

Next ==
  \/ MicBtnClick
  \/ RetryBtnClick
  \/ TextSend
  \/ \E outcome \in QueryOutcomes : PermissionAnswered(outcome)
  \/ \E granted \in BOOLEAN : MicAnswered(granted)
  \/ \E a \in Attempts, tokenOk \in BOOLEAN : OpenSession(a, tokenOk)
  \/ \E a \in Attempts : StartFailed(a)
  \/ \E s \in Attempts : OnCallStart(s)
  \/ \E s \in Attempts : OnCallEnd(s)
  \/ \E s \in Attempts : OnSpeechStart(s)
  \/ \E s \in Attempts : OnSpeechEnd(s)
  \/ \E s \in Attempts, msg \in Messages : OnMessage(s, msg)
  \/ \E s \in Attempts : OnError(s)
  \/ \E i \in 1..(MaxTimers + MaxAttempts) : TimerFired(i)
  \/ \E i \in 1..(MaxTimers + MaxAttempts) : FlushFired(i)

Spec == Init /\ [][Next]_vars

-----------------------------------------------------------------------------
(* Call Sessions *)

\* Sessions opened on the transport and not yet reported ended or failed.
OpenSessions == {s \in Attempts : sess[s] \in {"opening", "live"} /\ s \notin reported}

\* C1: at most one transport Call Session is open (opened and not yet
\* reported ended/error) at any time, whatever the interleaving of clicks,
\* text submissions, permission results and transport events.
C1_AtMostOneOpenSession == Cardinality(OpenSessions) <= 1

-----------------------------------------------------------------------------
(* Pending Text *)

\* C2: a text queued by a submission made while no call was active is
\* delivered by the settle-delay flush only into the session that submission
\* started, only once that session has entered listening, and never twice.
C2_PendingTextSentOnce ==
  \A i \in 1..Len(sent) :
    /\ sent[i].into = sent[i].by
    /\ sent[i].entered
    /\ \A j \in 1..Len(sent) : j # i => sent[j].by # sent[i].by

\* C6: a Pending Text flush is delivered only into the session whose
\* call-start armed it, never into another (later) session and never into a
\* session already reported ended or failed.
C6_FlushOnlyIntoOwnSession ==
  \A i \in 1..Len(sent) : sent[i].into = sent[i].sess /\ ~sent[i].stale

-----------------------------------------------------------------------------
(* Debounce timer *)

AssistantStarted == [type |-> "speech-update", role |-> "assistant", status |-> "started"]

\* C3: when an assistant 'started' is folded in while a return to listening
\* is pending, the pending return is cancelled: the state is agent-speaking
\* and no debounce task is left to move it to listening.
C3_StartedCancelsDebounce ==
  [][\A s \in Attempts :
       (isCallActive /\ OnMessage(s, AssistantStarted))
         => (uiState' = "agent-speaking" /\ DebounceCount' = 0)]_vars

\* C4: at most one debounce timer is outstanding, and the controller's timer
\* handle names every queued 'return to listening' task.
C4_OneDebounceTimer ==
  /\ DebounceCount <= 1
  /\ \A i \in 1..Len(tasks) : tasks[i].kind = "debounce" => agentSpeakingTimer = i

\* C5: when a session's 'call-end' or 'error' is handled, the debounce timer
\* is cancelled and discarded (no debounce task is outstanding, the handle is
\* null), and a debounce task armed in a session that has since been
\* reported ended or failed does not change the state when it fires.
C5_SessionEndCancelsTimer ==
  [][/\ \A s \in Attempts :
          (OnCallEnd(s) \/ OnError(s)) => (DebounceCount' = 0 /\ agentSpeakingTimer' = 0)
     /\ \A i \in 1..Len(tasks) :
          (TimerFired(i) /\ tasks[i].sess \in reported) => uiState' = uiState]_vars

-----------------------------------------------------------------------------
(* Stop requests and the active region *)

\* C7: a mic click while the call is active changes neither the UI state, nor
\* the active flag, nor the session reference; and the state leaves the
\* active region {listening, user-speaking, agent-speaking} only in a step
\* that handles a transport terminal event (call-end, error, or the failure
\* of the open).
C7_StopLeavesStateToTransport ==
  [][/\ (isCallActive /\ (MicBtnClick \/ RetryBtnClick))
          => (UNCHANGED <<uiState, isCallActive, vapi>> /\ lastCall' = StopCall)
     /\ (uiState \in ActiveStates /\ uiState' \notin ActiveStates)
          => \E s \in Attempts : OnCallEnd(s) \/ OnError(s) \/ StartFailed(s)]_vars

-----------------------------------------------------------------------------
(* The nine states *)

\* C8: the UI state is always one of the nine defined values, and the page
\* shows exactly that state (it is the projection of that one state, never a
\* mix of two).
C8_OneOfNineStates ==
  /\ uiState \in States
  /\ {st \in States : dom = ApplyState(BlankDom, st)} = {uiState}

\* A session ran and ended with a timer armed, and a later start was refused
\* at the permission gate.
C8_Witness ==
  /\ uiState = "mic-denied"
  /\ reported # {}
  /\ DebounceCount > 0

-----------------------------------------------------------------------------
(* Permission gate *)

\* C9: when the permission query of a mic-initiated start returns 'denied',
\* access is not requested, no session is started and the state is
\* mic-denied; and access is requested only in a step where the gate
\* reported 'prompt'.
C9_DeniedNeverRequests ==
  [][/\ PermissionAnswered("denied")
          => /\ uiState' = "mic-denied"
             /\ inflight'.request = inflight.request
             /\ sess' = sess
             /\ vapi' = vapi
     /\ inflight'.request > inflight.request
          => \E o \in QueryOutcomes :
               GetMicPermissionState(o) = "prompt" /\ PermissionAnswered(o)]_vars

\* The query returned 'denied' and the attempt has ended.
C9_Witness ==
  /\ lastPerm = "denied"
  /\ uiState = "mic-denied"
  /\ inflight = [query |-> 0, request |-> 0]

-----------------------------------------------------------------------------
(* The start scenario *)

ScenarioStates == <<"idle", "requesting-mic", "connecting", "listening">>

\* C10: from idle, a tap with permission 'prompt', access granted and a transport
\* 'call started' shows exactly idle, requesting-mic, connecting, listening:
\* along the scenario the states shown are a prefix of that sequence, the
\* state is the last one shown, and at its end the whole sequence was shown.
C10_ScenarioSequence ==
  applyLog.on =>
    /\ Len(applyLog.states) \in 1..Len(ScenarioStates)
    /\ applyLog.states = SubSeq(ScenarioStates, 1, Len(applyLog.states))
    /\ uiState = applyLog.states[Len(applyLog.states)]
    /\ applyLog.n = Len(Scenario) => applyLog.states = ScenarioStates

\* The scenario ran to its end.
C10_Witness == applyLog.on /\ applyLog.n = Len(Scenario)

-----------------------------------------------------------------------------
(* Pre-registration *)

\* C11: when the pre-registration fails, the attempt goes on: the step leaves
\* the UI state and the active flag as they were (no call-error), and opens
\* the transport session with the stored identity and without a token.
C11_PreregFailureStillOpens ==
  [][\A a \in Attempts :
       OpenSession(a, FALSE)
         => /\ uiState' = uiState
            /\ isCallActive' = isCallActive
            /\ reported' = reported
            /\ sess'[a] = "opening"
            /\ vapi' = a
            /\ lastCall' = StartOf(a, localStorage[1], "")]_vars

\* A session was just opened without a token, from connecting.
C11_Witness ==
  /\ lastCall.op = "start"
  /\ lastCall.token = ""
  /\ lastCall.userId \in Uuids
  /\ uiState = "connecting"
  /\ sess[lastCall.to] = "opening"

-----------------------------------------------------------------------------
(* Failure of the open *)

\* C12: when vapi.start() of attempt a fails, the state becomes call-error and
\* the attempt's own session reference is dropped; when the controller holds
\* the session of another (later) attempt at that moment, that reference and
\* the active flag are left as they were.
C12_OpenFailureEndsOwnAttempt ==
  [][\A a \in Attempts :
       StartFailed(a)
         => /\ uiState' = "call-error"
            /\ vapi' # a
            /\ vapi \notin {0, a} => (vapi' = vapi /\ isCallActive' = isCallActive)]_vars

-----------------------------------------------------------------------------
(* Sources of call-error *)

\* C13: the state becomes call-error only in a step that handles a transport
\* 'error' or the failure of the open; a permission denial and a refused
\* access request lead to mic-denied, and a failed pre-registration leaves the
\* state as it is.
C13_CallErrorOnlyFromTransport ==
  [][/\ (uiState' = "call-error" /\ uiState # "call-error")
          => \E s \in Attempts : OnError(s) \/ StartFailed(s)
     /\ (PermissionAnswered("denied") \/ MicAnswered(FALSE)) => uiState' = "mic-denied"
     /\ \A a \in Attempts : OpenSession(a, FALSE) => uiState' = uiState]_vars

\* call-error is shown after the open of a session failed.
C13_Witness ==
  /\ uiState = "call-error"
  /\ vapi = 0
  /\ \E s \in reported : sess[s] = "failed"

-----------------------------------------------------------------------------
(* Text submission *)

\* C14: a non-empty text submitted while the call is active is sent to the
\* transport in that step, the Pending Text slot is left unchanged and no
\* attempt is started; submitted while no call is active it becomes the
\* Pending Text, whatever the slot held before.
C14_SubmitTextActiveOrQueued ==
  [][\A raw \in RawInputs :
       (TextUsable /\ Trim(raw) # <<>> /\ HandleTextSend(raw))
         => /\ isCallActive
                 => /\ lastCall'.op = "send"
                    /\ lastCall'.text = Trim(raw)
                    /\ pendingText' = pendingText
                    /\ sess' = sess
            /\ ~isCallActive => pendingText' = <<Trim(raw)>>]_vars

\* C15: a non-empty text submitted while no call is active starts the call
\* without the permission gate: the step goes to connecting and starts an
\* attempt, no permission query and no access request is made or pending
\* because of it, and the attempt's open makes none either.
C15_TextStartBypassesGate ==
  [][/\ \A raw \in RawInputs :
          (TextUsable /\ ~isCallActive /\ Trim(raw) # <<>> /\ HandleTextSend(raw))
            => /\ uiState' = "connecting"
               /\ inflight' = inflight
               /\ \E a \in Attempts : sess[a] = "unused" /\ sess'[a] = "prereg"
     /\ \A a \in Attempts, tokenOk \in BOOLEAN :
          OpenSession(a, tokenOk) => (inflight' = inflight /\ uiState' = uiState)]_vars

\* A text-initiated attempt is connecting, started from mic-denied with no
\* permission query or access request pending.
C15_Witness ==
  /\ uiState = "connecting"
  /\ Truthy(pendingText)
  /\ pendingBy # 0
  /\ sess[pendingBy] = "prereg"
  /\ inflight = [query |-> 0, request |-> 0]

-----------------------------------------------------------------------------
(* Terminal states *)

\* C16: the state leaves call-ended or call-error only by a click on the mic
\* or retry button, and then to requesting-mic; no transport event and no
\* timer changes it.
C16_TerminalLeftOnlyByStart ==
  [][(uiState \in {"call-ended", "call-error"} /\ uiState' # uiState)
       => (uiState' = "requesting-mic" /\ (MicBtnClick \/ RetryBtnClick))]_vars

TerminalStates == {"mic-denied", "call-ended", "call-error"}

\* C17: in mic-denied, call-ended and call-error the mic button is enabled,
\* and a click on the mic or retry button there starts the start sequence:
\* the state becomes requesting-mic.
C17_RetryFromTerminal ==
  [][/\ uiState \in TerminalStates => ~dom.micDisabled
     /\ (uiState \in TerminalStates /\ (MicBtnClick \/ RetryBtnClick))
          => uiState' = "requesting-mic"]_vars

-----------------------------------------------------------------------------
(* UI descriptor *)

\* What the user can use on page d: the mic control, the text input, the
\* permission help and the icons.
Descriptor(d) ==
  [micEnabled |-> ~d.micDisabled, textVisible |-> d.textVisible,
   textEnabled |-> d.textEnabled, permissionHelp |-> d.permCard, icons |-> d.icons]

\* C18: the UI descriptor is a function of the current state alone (it is what
\* applyState of that state gives on any page); the mic control is disabled
\* exactly in requesting-mic and connecting, and the permission help is
\* shown exactly in mic-denied.
C18_DescriptorFunctionOfState ==
  /\ Descriptor(dom) = Descriptor(ApplyState(BlankDom, uiState))
  /\ dom.micDisabled <=> uiState \in {"requesting-mic", "connecting"}
  /\ dom.permCard <=> uiState = "mic-denied"

\* requesting-mic entered from call-ended, after the agent spoke, rather than
\* from idle.
C18_Witness ==
  /\ uiState = "requesting-mic"
  /\ dom.micDisabled
  /\ \E s \in Attempts : sess[s] = "ended"

-----------------------------------------------------------------------------
(* Permission query *)

\* C19: every click that starts a call (the call is not active) makes a new
\* permission query; when the query throws, access is requested as for
\* 'prompt', with no state shown in between; and the answer to the access
\* request leads to connecting when granted, to mic-denied when refused.
C19_FreshQueryAndThrowsIsPrompt ==
  [][/\ (~isCallActive /\ (MicBtnClick \/ RetryBtnClick))
          => (inflight'.query = inflight.query + 1 /\ uiState' = "requesting-mic")
     /\ PermissionAnswered("throws")
          => /\ inflight'.request = inflight.request + 1
             /\ inflight'.query = inflight.query - 1
             /\ uiState' = uiState
             /\ sess' = sess
     /\ MicAnswered(TRUE) => uiState' = "connecting"
     /\ MicAnswered(FALSE) => (uiState' = "mic-denied" /\ sess' = sess)]_vars

\* A later start attempt, after an earlier session was reported ended or
\* failed: its own query reported 'prompt' and access is being requested.
C19_Witness ==
  /\ lastPerm = "prompt"
  /\ inflight = [query |-> 0, request |-> 1]
  /\ uiState = "requesting-mic"
  /\ reported # {}

-----------------------------------------------------------------------------
(* Speech events *)

\* C20: a 'speech-start', a 'speech-end' or a message handled while the call
\* is not active, and a speech update whose role is not 'assistant' handled
\* at any time, leave the UI state, the debounce timer (its handle and the
\* queued tasks) and the Pending Text unchanged.
C20_SpeechIgnoredWhenInactive ==
  [][\A s \in Attempts :
       /\ (~isCallActive /\ (\/ OnSpeechStart(s)
                             \/ OnSpeechEnd(s)
                             \/ \E msg \in Messages : OnMessage(s, msg)))
            => UNCHANGED <<uiState, dom, agentSpeakingTimer, tasks, pendingText>>
       /\ \A msg \in Messages :
            (msg.role # "assistant" /\ OnMessage(s, msg))
              => UNCHANGED <<uiState, dom, agentSpeakingTimer, tasks, pendingText>>]_vars

\* The call is not active while a session that reported an error is still
\* live on the transport and can deliver speech events, with a debounce timer
\* queued.
C20_Witness ==
  /\ ~isCallActive
  /\ uiState = "call-error"
  /\ \E s \in reported : sess[s] = "live"
  /\ DebounceCount > 0

-----------------------------------------------------------------------------
(* Identity *)

\* What localStorage['calendarUserId'] can hold when a page calls
\* getOrCreateUserId.
Stores == {<<>>} \cup {<<u>> : u \in Uuids}

\* C21: getOrCreateUserId is idempotent: a call on a storage that holds an id
\* returns that id and leaves the storage as it is, a second call returns
\* what the first returned whatever id would be generated, and the stored id
\* is never changed or removed by any step; every session is started with it.
C21_GetOrCreateIdIdempotent ==
  /\ \A store \in Stores, f1 \in Uuids, f2 \in Uuids :
       /\ store # <<>> => GetOrCreateUserId(store, f1) = store
       /\ GetOrCreateUserId(GetOrCreateUserId(store, f1), f2)
            = GetOrCreateUserId(store, f1)
  /\ [][/\ localStorage # <<>>
        /\ localStorage' = localStorage
        /\ lastCall'.op = "start" => lastCall'.userId = localStorage[1]]_vars

\* getOrCreateUserId ran at page load and in two start attempts, and the
\* second session was just started with the id stored at page load.
C21_Witness ==
  /\ localStorage = <<"u1">>
  /\ lastCall.op = "start"
  /\ lastCall.to = 2
  /\ lastCall.userId = "u1"
  /\ sess[1] # "unused"

-----------------------------------------------------------------------------
(* The active flag and the session reference *)

\* C22: the call-active flag agrees with the UI state: isCallActive is true
\* exactly when the state is listening, user-speaking or agent-speaking.
C22_ActiveFlagAgreesWithState == isCallActive <=> uiState \in ActiveStates

\* C23: whenever the call is marked active the controller holds a session
\* reference (vapi is not null), so a stop request or a text sent in an active
\* state reaches the transport.
C23_ActiveHoldsSession == isCallActive => vapi # 0

-----------------------------------------------------------------------------
(* Pending Text after a failed attempt *)

\* C24: the Pending Text slot is filled only while the text-initiated attempt
\* that filled it is in progress (the state is connecting and the attempt has
\* not ended), and no flush delivers a text into a session other than the one
\* its submission started.
C24_PendingTextOnlyWhileConnecting ==
  /\ Truthy(pendingText)
       => /\ uiState = "connecting"
          /\ pendingBy # 0
          /\ sess[pendingBy] \in {"prereg", "opening"}
  /\ \A i \in 1..Len(sent) : sent[i].by = sent[i].into

-----------------------------------------------------------------------------
(* Expiry of the debounce timer *)

\* C25: the expiry of a debounce timer changes the state only from
\* agent-speaking (to listening); in any other state, user-speaking in
\* particular, it leaves the state as it is.
C25_ExpiryOnlyFromAgentSpeaking ==
  [][\A i \in 1..Len(tasks) :
       TimerFired(i)
         => /\ uiState # "agent-speaking" => uiState' = uiState
            /\ uiState' \in {uiState, "listening"}]_vars

\* C26: the state goes from agent-speaking to listening only in a step in
\* which a debounce timer expires.
C26_AgentSpeakingLeftByTimer ==
  [][(uiState = "agent-speaking" /\ uiState' = "listening")
       => \E i \in 1..Len(tasks) : TimerFired(i)]_vars

-----------------------------------------------------------------------------
(* Liveness of the debounce *)

\* Start attempts in the runs checked for liveness.
LiveAttempts == 2

\* A step of the module that starts no attempt beyond LiveAttempts.
LiveNext == Next /\ \A a \in Attempts : a > LiveAttempts => sess'[a] = "unused"

\* The browser runs a timer callback that stays due: the runs of the module
\* with both kinds of timer callbacks weakly fair.
FairSpec ==
  /\ Init /\ [][LiveNext]_vars
  /\ WF_vars(\E i \in 1..(MaxTimers + MaxAttempts) : TimerFired(i))
  /\ WF_vars(\E i \in 1..(MaxTimers + MaxAttempts) : FlushFired(i))

\* An assistant 'stopped' was handled in agent-speaking: the handle names a
\* queued debounce task.
DebounceArmed ==
  /\ uiState = "agent-speaking"
  /\ agentSpeakingTimer \in 1..Len(tasks)
  /\ tasks[agentSpeakingTimer].kind = "debounce"

\* The debounce ran out (listening, handle cleared), or an assistant 'started'
\* cancelled it (agent-speaking, handle cleared), or the call ended or failed.
DebounceSettled ==
  \/ uiState = "listening" /\ agentSpeakingTimer = 0
  \/ uiState = "agent-speaking" /\ agentSpeakingTimer = 0
  \/ uiState \in {"call-ended", "call-error"}

\* C27: when an assistant 'stopped' was handled in agent-speaking, then, timers
\* firing, the state eventually is listening with the timer handle cleared,
\* unless an assistant 'started', a call end or an error came first.
C27_DebounceEventuallyListening == DebounceArmed ~> DebounceSettled

\* The debounce timer is armed in agent-speaking while the text flush of the
\* session is still queued before it.
C27_Witness ==
  /\ DebounceArmed
  /\ agentSpeakingTimer = 2
  /\ tasks[1].kind = "flush"

====
